---- MODULE Spec2Model ----
(***************************************************************************)
(* gpv (prompt versioning): the sub_prompts / master_prompts store and the *)
(* commit and uncommit commands that write it.                             *)
(*                                                                         *)
(* A sub_prompts row is [id, type, parent_id, version, contents]; a        *)
(* master_prompts row is [id, parent_id, version, contents, is_current].   *)
(* commit_message and created_at are written once and never read by the    *)
(* commands, so the rows of the model leave them out.                      *)
(*                                                                         *)
(* SQL NULL / Python None is 0 for an id (AUTOINCREMENT ids start at 1)    *)
(* and the empty sequence for a version.  A dotted version string "4.3.1"  *)
(* is the sequence of its segments <<4, 3, 1>>.                            *)
(***************************************************************************)
EXTENDS Integers, Sequences, FiniteSets, TLC

(***************************************************************************)
(* Bounds of the model.                                                    *)
(***************************************************************************)
MaxFiles == 2
MaxSubs == 3
MaxMasters == 3
MaxBranchPk == 1
MaxBranches == 1

Types == {"a", "b"}
NumContents == 3

\* Version strings as text: at most MaxSegments segments of at most MaxDigits
\* digits each, the digits drawn from VerDigits.
MaxSegments == 2

MaxDigits == 2

VerDigits == {0, 1, 9}
Contents == 1..NumContents
Prefixes == 1..MaxFiles

\* Alphabetical order of the type labels, as Python's string comparison
\* of file names sees it.
TypeRank == [t \in Types |-> IF t = "a" THEN 1 ELSE 2]

(***************************************************************************)
(* Python dicts: functions with a finite domain.                           *)
(***************************************************************************)
EmptyDict == <<>>

Put(d, k, v) == [x \in (DOMAIN d) \cup {k} |-> IF x = k THEN v ELSE d[x]]

Get(d, k, default) == IF k \in DOMAIN d THEN d[k] ELSE default

(***************************************************************************)
(* versioning.py                                                           *)
(***************************************************************************)
NoVersion == <<>>

increment_version(parent_version) ==
    IF parent_version = NoVersion
    THEN <<1>>
    ELSE [parent_version EXCEPT ![Len(parent_version)] = @ + 1]

\* A branch that appends .0
branch_version_zero(parent_version) == Append(parent_version, 0)

branch_version(parent_version) == Append(parent_version, 1)

Segment(parts, i) == IF i <= Len(parts) THEN parts[i] ELSE 0

Max(m, n) == IF m >= n THEN m ELSE n

\* The loop returns at the first index where the padded segments differ.
version_gt(new_version, old_version) ==
    LET n == Max(Len(new_version), Len(old_version))
        differ == {i \in 1..n : Segment(new_version, i) # Segment(old_version, i)}
    IN  /\ differ # {}
        /\ LET first == CHOOSE i \in differ : \A j \in differ : i <= j
           IN  Segment(new_version, first) > Segment(old_version, first)

version_segment_count(version) == Len(version)

is_branched(new_version, old_version) ==
    version_segment_count(new_version) > version_segment_count(old_version)

\* Version strings as the code reads them.  A version text is the sequence of
\* its segments between the dots (version.split(".")); a segment is its
\* sequence of decimal digits.  The versions of the store above are the
\* integer lists that split_ints yields.
RECURSIVE int_of_text(_)
int_of_text(segment) ==
    IF Len(segment) = 0 THEN 0
    ELSE 10 * int_of_text(SubSeq(segment, 1, Len(segment) - 1)) + segment[Len(segment)]

RECURSIVE str_of_int(_)
str_of_int(n) == IF n < 10 THEN <<n>> ELSE Append(str_of_int(n \div 10), n % 10)

\* [int(x) for x in version.split(".")]
split_ints(version) == [i \in 1..Len(version) |-> int_of_text(version[i])]

\* An increment that appends a segment.
increment_version_text_appends(parent_version) == Append(parent_version, <<1>>)

\* parts[-1] = str(int(parts[-1]) + 1): the other segments keep their text.
increment_version_text(parent_version) ==
    [parent_version EXCEPT ![Len(parent_version)] = str_of_int(int_of_text(@) + 1)]

\* A comparison over the segments both versions have.
version_gt_text_unpadded(new_version, old_version) ==
    LET n == IF Len(new_version) <= Len(old_version)
             THEN Len(new_version) ELSE Len(old_version)
    IN  version_gt(SubSeq(split_ints(new_version), 1, n),
                   SubSeq(split_ints(old_version), 1, n))

version_gt_text(new_version, old_version) ==
    version_gt(split_ints(new_version), split_ints(old_version))

version_segment_count_text(version) == Len(version)

\* A derivation that hands the current master's version on unchanged.
derive_master_version_kept(current_master_version, current_by_type, new_sub_ids, new_id_to_version, new_id_to_type) ==
    IF current_master_version = NoVersion THEN <<1>> ELSE current_master_version

\* new_sub_ids is walked in order and the loop breaks at the first branched
\* sub-prompt: any_branched is an existential over the list.
derive_master_version(current_master_version, current_by_type, new_sub_ids, new_id_to_version, new_id_to_type) ==
    IF current_master_version = NoVersion
    THEN <<1>>
    ELSE LET any_branched ==
                 \E i \in 1..Len(new_sub_ids) :
                     LET new_ver == Get(new_id_to_version, new_sub_ids[i], NoVersion)
                         sub_type == Get(new_id_to_type, new_sub_ids[i], "")
                         old_ver == IF sub_type # ""
                                    THEN Get(current_by_type, sub_type, NoVersion)
                                    ELSE NoVersion
                     IN  /\ new_ver # NoVersion
                         /\ old_ver # NoVersion
                         /\ is_branched(new_ver, old_ver)
         IN  IF any_branched
             THEN branch_version(current_master_version)
             ELSE increment_version(current_master_version)

(***************************************************************************)
(* db.py: rows, the JSON codec of master contents, queries and writes.     *)
(***************************************************************************)
NoSub == [id |-> 0, type |-> "", parent_id |-> 0, version |-> NoVersion, contents |-> 0]

NoMaster == [id |-> 0, parent_id |-> 0, version |-> NoVersion, contents |-> <<>>,
             is_current |-> 0]

\* json.dumps of a list of ints is the token string "[", i1, ",", i2, ..., "]".
\* The three punctuation tokens are negative so that they are no id.
JsonOpen == -1
JsonComma == -2
JsonClose == -3

RECURSIVE JsonItems(_)
JsonItems(ids) ==
    IF Len(ids) = 0 THEN <<>>
    ELSE IF Len(ids) = 1 THEN <<ids[1]>>
    ELSE <<ids[1], JsonComma>> \o JsonItems(Tail(ids))

ids_to_master_contents(ids) == <<JsonOpen>> \o JsonItems(ids) \o <<JsonClose>>

\* json.loads: the integers between the brackets, in order.
master_contents_to_ids(contents) == SelectSeq(contents, LAMBDA tok : tok > 0)

RowWithLeastId(rows) == CHOOSE r \in rows : \A q \in rows : r.id <= q.id

\* fetchone() of a table scan: the matching row of least rowid, or None.
get_sub_prompt_by_contents(sub_prompts, contents) ==
    LET hit == {r \in sub_prompts : r.contents = contents}
    IN  IF hit = {} THEN NoSub ELSE RowWithLeastId(hit)

get_sub_prompt_by_id(sub_prompts, id) ==
    LET hit == {r \in sub_prompts : r.id = id}
    IN  IF hit = {} THEN NoSub ELSE RowWithLeastId(hit)

get_current_master(master_prompts) ==
    LET hit == {m \in master_prompts : m.is_current = 1}
    IN  IF hit = {} THEN NoMaster ELSE RowWithLeastId(hit)

get_master_by_id(master_prompts, id) ==
    LET hit == {m \in master_prompts : m.id = id}
    IN  IF hit = {} THEN NoMaster ELSE RowWithLeastId(hit)

\* A lookup that falls back on the current master when it has no parent.
get_previous_master_or_self(master_prompts) ==
    LET current == get_current_master(master_prompts)
    IN  IF current.id = 0 \/ current.parent_id = 0
        THEN current
        ELSE get_master_by_id(master_prompts, current.parent_id)

get_previous_master(master_prompts) ==
    LET current == get_current_master(master_prompts)
    IN  IF current.id = 0 \/ current.parent_id = 0
        THEN NoMaster
        ELSE get_master_by_id(master_prompts, current.parent_id)

\* [by_id[i] for i in ids if i in by_id]: request order kept, missing ids dropped.
RECURSIVE get_sub_prompts_by_ids(_, _)
get_sub_prompts_by_ids(sub_prompts, ids) ==
    IF Len(ids) = 0 THEN <<>>
    ELSE LET row == get_sub_prompt_by_id(sub_prompts, ids[1])
             rest == get_sub_prompts_by_ids(sub_prompts, Tail(ids))
         IN  IF row.id = 0 THEN rest ELSE <<row>> \o rest

\* A sub_prompts table without the UNIQUE constraint.
sub_prompts_not_unique(sub_prompts, contents) == TRUE

\* UNIQUE(contents) of sub_prompts: may a row with these contents be inserted?
sub_prompts_unique_ok(sub_prompts, contents) ==
    \A r \in sub_prompts : r.contents # contents

\* A master_prompts table without the UNIQUE constraint.
master_prompts_not_unique(master_prompts, contents) == TRUE

\* UNIQUE(contents) of master_prompts.  idx_master_prompts_current is a unique
\* index on id (already the primary key), so it rejects nothing.
master_prompts_unique_ok(master_prompts, contents) ==
    \A m \in master_prompts : m.contents # contents

\* A database is [sub_prompts, master_prompts, sub_seq, master_seq]; the two
\* sequence counters are sqlite_sequence: AUTOINCREMENT never reuses an id.
\* The result carries ok = FALSE (sqlite3.IntegrityError) and the database
\* untouched when the UNIQUE constraint rejects the row.
insert_sub_prompt(db, type, parent_id, version, contents) ==
    IF sub_prompts_unique_ok(db.sub_prompts, contents)
    THEN [ok |-> TRUE,
          id |-> db.sub_seq + 1,
          db |-> [db EXCEPT !.sub_seq = @ + 1,
                            !.sub_prompts = @ \cup
                                {[id |-> db.sub_seq + 1, type |-> type,
                                  parent_id |-> parent_id, version |-> version,
                                  contents |-> contents]}]]
    ELSE [ok |-> FALSE, id |-> 0, db |-> db]

\* An insert that stores every master as not current.
insert_master_prompt_unflagged(db, parent_id, version, contents, is_current) ==
    IF master_prompts_unique_ok(db.master_prompts, contents)
    THEN [ok |-> TRUE,
          id |-> db.master_seq + 1,
          db |-> [db EXCEPT !.master_seq = @ + 1,
                            !.master_prompts = @ \cup
                                {[id |-> db.master_seq + 1, parent_id |-> parent_id,
                                  version |-> version, contents |-> contents,
                                  is_current |-> 0]}]]
    ELSE [ok |-> FALSE, id |-> 0, db |-> db]

insert_master_prompt(db, parent_id, version, contents, is_current) ==
    IF master_prompts_unique_ok(db.master_prompts, contents)
    THEN [ok |-> TRUE,
          id |-> db.master_seq + 1,
          db |-> [db EXCEPT !.master_seq = @ + 1,
                            !.master_prompts = @ \cup
                                {[id |-> db.master_seq + 1, parent_id |-> parent_id,
                                  version |-> version, contents |-> contents,
                                  is_current |-> is_current]}]]
    ELSE [ok |-> FALSE, id |-> 0, db |-> db]

\* A clear that leaves the flags as they are.
clear_current_master_keeps(master_prompts) == master_prompts

clear_current_master(master_prompts) ==
    {[m EXCEPT !.is_current = 0] : m \in master_prompts}

set_current_master(master_prompts, master_id) ==
    {[m EXCEPT !.is_current = IF m.id = master_id THEN 1 ELSE 0] : m \in master_prompts}

delete_master_prompt(master_prompts, master_id) ==
    {m \in master_prompts : m.id # master_id}

delete_sub_prompts(sub_prompts, ids) ==
    {r \in sub_prompts : r.id \notin ids}

(***************************************************************************)
(* commands/commit.py                                                      *)
(*                                                                         *)
(* A path is <<prefix, type>>: the file name "<prefix>_<type>.j2".  A file *)
(* of the working directory is [path, contents].                           *)
(***************************************************************************)
extract_type_from_filename(path) == path[2]

\* sorted(..., key=lambda p: p.name): by prefix, then by type label.
NameLess(p, q) ==
    \/ p[1] < q[1]
    \/ p[1] = q[1] /\ TypeRank[p[2]] < TypeRank[q[2]]

RECURSIVE SortByName(_)
SortByName(files) ==
    IF files = {} THEN <<>>
    ELSE LET first == CHOOSE f \in files :
                          \A g \in files : g = f \/ NameLess(f.path, g.path)
         IN  <<first>> \o SortByName(files \ {first})

\* Lines 106-116: one (path, contents, type_name) triple per path, in name order.
files_data_of(paths) ==
    LET sorted == SortByName(paths)
    IN  [i \in 1..Len(sorted) |->
            [path |-> sorted[i].path,
             contents |-> sorted[i].contents,
             type_name |-> extract_type_from_filename(sorted[i].path)]]

duplicates_none(files_data) == {}

\* Lines 123-126: the types that more than one file of the commit has.
duplicates(files_data) ==
    {t \in Types :
        Cardinality({i \in 1..Len(files_data) : files_data[i].type_name = t}) > 1}

\* Python's {row["type"]: row["version"] for row in current_subs}: a later row
\* of the same type overwrites an earlier one.
RECURSIVE TypeToVersion(_)
TypeToVersion(rows) ==
    IF Len(rows) = 0 THEN EmptyDict
    ELSE LET n == Len(rows)
         IN  Put(TypeToVersion(SubSeq(rows, 1, n - 1)), rows[n].type, rows[n].version)

\* Lines 135-143: what a commit reads before its loop, and its empty maps.
commit_begin(db, files_data, branch_by_path) ==
    LET current == get_current_master(db.master_prompts)
        current_ids == IF current.id # 0
                       THEN master_contents_to_ids(current.contents) ELSE <<>>
        current_subs == IF Len(current_ids) > 0
                        THEN get_sub_prompts_by_ids(db.sub_prompts, current_ids)
                        ELSE <<>>
    IN  [files_data |-> files_data,
         branch_by_path |-> branch_by_path,
         current |-> current,
         current_subs |-> current_subs,
         current_by_type |-> TypeToVersion(current_subs),
         type_to_id |-> EmptyDict,
         id_to_version |-> EmptyDict,
         id_to_type |-> EmptyDict,
         inserted_any |-> FALSE]

\* A reuse that files the row under the row's own type.
reuse_existing_by_row_type(ctx, type_name, existing) ==
    [ctx EXCEPT !.type_to_id = Put(@, existing.type, existing.id),
                !.id_to_version = Put(@, existing.id, existing.version),
                !.id_to_type = Put(@, existing.id, existing.type)]

\* Lines 147-151: the file's content is in the store; its row is reused.
reuse_existing(ctx, type_name, existing) ==
    [ctx EXCEPT !.type_to_id = Put(@, type_name, existing.id),
                !.id_to_version = Put(@, existing.id, existing.version),
                !.id_to_type = Put(@, existing.id, existing.type)]

\* A lookup that finds no prior sub-prompt.
prior_in_current_none(ctx, type_name) == NoSub

\* Lines 153-160: the first sub-prompt of the current master with this type.
prior_in_current(ctx, type_name) ==
    LET hit == {i \in 1..Len(ctx.current_subs) : ctx.current_subs[i].type = type_name}
    IN  IF ctx.current.id = 0 \/ hit = {}
        THEN NoSub
        ELSE ctx.current_subs[CHOOSE i \in hit : \A j \in hit : i <= j]

\* A resolution that branches from the named row whatever its type.
resolve_parent_any_type(db, ctx, f) ==
    LET prior == prior_in_current(ctx, f.type_name)
    IN  IF f.path \in DOMAIN ctx.branch_by_path
        THEN LET parent_pk == ctx.branch_by_path[f.path]
                 parent_row == get_sub_prompt_by_id(db.sub_prompts, parent_pk)
             IN  IF parent_row.id = 0
                 THEN [status |-> "CommitError", named |-> {},
                       parent_id |-> 0, version |-> NoVersion]
                 ELSE [status |-> "ok", named |-> {},
                       parent_id |-> parent_pk,
                       version |-> branch_version(parent_row.version)]
        ELSE [status |-> "ok", named |-> {},
              parent_id |-> prior.id,
              version |-> increment_version(prior.version)]

\* Lines 162-175: parent and version of a row to insert.  status is "ok" or
\* "CommitError" (parent not found, or parent of another type).
resolve_parent(db, ctx, f) ==
    LET prior == prior_in_current(ctx, f.type_name)
    IN  IF f.path \in DOMAIN ctx.branch_by_path
        THEN LET parent_pk == ctx.branch_by_path[f.path]
                 parent_row == get_sub_prompt_by_id(db.sub_prompts, parent_pk)
             IN  IF parent_row.id = 0
                 THEN [status |-> "CommitError", named |-> {},
                       parent_id |-> 0, version |-> NoVersion]
                 ELSE IF parent_row.type # f.type_name
                 THEN [status |-> "CommitError", named |-> {parent_row.type, f.type_name},
                       parent_id |-> 0, version |-> NoVersion]
                 ELSE [status |-> "ok", named |-> {},
                       parent_id |-> parent_pk,
                       version |-> branch_version(parent_row.version)]
        ELSE [status |-> "ok", named |-> {},
              parent_id |-> prior.id,
              version |-> increment_version(prior.version)]

\* Lines 177-189: insert_sub_prompt, conn.commit() and the three map updates.
\* The row is durable as soon as this returns.
insert_new(db, ctx, f) ==
    LET p == resolve_parent(db, ctx, f)
        ins == insert_sub_prompt(db, f.type_name, p.parent_id, p.version, f.contents)
    IN  IF p.status # "ok"
        THEN [status |-> p.status, named |-> p.named, db |-> db, ctx |-> ctx]
        ELSE IF ~ins.ok
        THEN [status |-> "IntegrityError", named |-> {}, db |-> db, ctx |-> ctx]
        ELSE [status |-> "ok", named |-> {}, db |-> ins.db,
              ctx |-> [ctx EXCEPT !.type_to_id = Put(@, f.type_name, ins.id),
                                  !.id_to_version = Put(@, ins.id, p.version),
                                  !.id_to_type = Put(@, ins.id, f.type_name),
                                  !.inserted_any = TRUE]]

\* Lines 145-189: one iteration of the loop, for the file f and the row
\* `existing` that the lookup by contents returned.
commit_file(db, ctx, f, existing) ==
    IF existing.id # 0
    THEN [status |-> "ok", named |-> {}, db |-> db,
          ctx |-> reuse_existing(ctx, f.type_name, existing)]
    ELSE insert_new(db, ctx, f)

\* The loop over files_data from index i on; it is killed (the process dies)
\* once `stop` iterations have completed, if it gets that far.
RECURSIVE commit_loop(_, _, _, _)
commit_loop(db, ctx, i, stop) ==
    IF i > stop
    THEN [status |-> "interrupted", named |-> {}, db |-> db, ctx |-> ctx]
    ELSE IF i > Len(ctx.files_data)
    THEN [status |-> "ok", named |-> {}, db |-> db, ctx |-> ctx]
    ELSE LET f == ctx.files_data[i]
             r == commit_file(db, ctx, f,
                              get_sub_prompt_by_contents(db.sub_prompts, f.contents))
         IN  IF r.status # "ok" THEN r ELSE commit_loop(r.db, r.ctx, i + 1, stop)

\* Lines 192-200: the types of the commit in file order, then the types of the
\* current master that the commit does not have.  ok = FALSE is
\* DuplicateTypeInCurrentError, raised for the type `dup`.
RECURSIVE extend_type_order(_, _, _, _)
extend_type_order(order, types_in_commit, current_subs, i) ==
    IF i > Len(current_subs)
    THEN [ok |-> TRUE, order |-> order, dup |-> ""]
    ELSE LET t == current_subs[i].type
         IN  IF t \in types_in_commit
             THEN extend_type_order(order, types_in_commit, current_subs, i + 1)
             ELSE IF \E k \in 1..Len(order) : order[k] = t
             THEN [ok |-> FALSE, order |-> order, dup |-> t]
             ELSE extend_type_order(Append(order, t), types_in_commit, current_subs, i + 1)

current_type_order(ctx) ==
    LET n == Len(ctx.files_data)
    IN  extend_type_order([i \in 1..n |-> ctx.files_data[i].type_name],
                          {ctx.files_data[i].type_name : i \in 1..n},
                          ctx.current_subs, 1)

\* Lines 202-213: the id of every slot, in the order of current_type_order.
\* acc is [new_ids, id_to_version, id_to_type].
RECURSIVE compose_new_ids(_, _, _, _)
compose_new_ids(ctx, order, i, acc) ==
    IF i > Len(order) THEN acc
    ELSE LET t == order[i]
             sub == prior_in_current(ctx, t)
         IN  IF t \in DOMAIN ctx.type_to_id
             THEN compose_new_ids(ctx, order, i + 1,
                      [acc EXCEPT !.new_ids = Append(@, ctx.type_to_id[t])])
             ELSE IF sub.id # 0
             THEN compose_new_ids(ctx, order, i + 1,
                      [new_ids |-> Append(acc.new_ids, sub.id),
                       id_to_version |-> Put(acc.id_to_version, sub.id, sub.version),
                       id_to_type |-> Put(acc.id_to_type, sub.id, sub.type)])
             ELSE compose_new_ids(ctx, order, i + 1, acc)

\* Lines 215-221: nothing to commit.
nothing_to_commit(ctx, new_ids) ==
    \/ Len(new_ids) = 0
    \/ /\ ~ctx.inserted_any
       /\ ctx.current.id # 0
       /\ new_ids = master_contents_to_ids(ctx.current.contents)

\* A write that gives the new master no parent.
write_master_unparented(db, ctx, new_master_version, new_contents) ==
    LET cleared == IF ctx.current.id # 0
                   THEN [db EXCEPT !.master_prompts = clear_current_master(@)]
                   ELSE db
        ins == insert_master_prompt(cleared, 0, new_master_version, new_contents, 1)
    IN  IF ins.ok THEN [ok |-> TRUE, db |-> ins.db] ELSE [ok |-> FALSE, db |-> db]

\* Lines 234-244: one transaction.  A rejected insert rolls the cleared flag
\* back with it.
write_master(db, ctx, new_master_version, new_contents) ==
    LET cleared == IF ctx.current.id # 0
                   THEN [db EXCEPT !.master_prompts = clear_current_master(@)]
                   ELSE db
        ins == insert_master_prompt(cleared, ctx.current.id, new_master_version,
                                    new_contents, 1)
    IN  IF ins.ok THEN [ok |-> TRUE, db |-> ins.db] ELSE [ok |-> FALSE, db |-> db]

\* Lines 191-244: what follows the loop.
commit_finish(db, ctx) ==
    LET ord == current_type_order(ctx)
        acc == compose_new_ids(ctx, ord.order, 1,
                   [new_ids |-> <<>>, id_to_version |-> ctx.id_to_version,
                    id_to_type |-> ctx.id_to_type])
        new_master_version ==
            derive_master_version(ctx.current.version, ctx.current_by_type,
                                  acc.new_ids, acc.id_to_version, acc.id_to_type)
        w == write_master(db, ctx, new_master_version,
                          ids_to_master_contents(acc.new_ids))
    IN  IF ~ord.ok
        THEN [outcome |-> "DuplicateTypeInCurrentError", named |-> {ord.dup}, db |-> db]
        ELSE IF nothing_to_commit(ctx, acc.new_ids)
        THEN [outcome |-> "nothing_to_commit", named |-> {}, db |-> db]
        ELSE IF ~w.ok
        THEN [outcome |-> "IntegrityError", named |-> {}, db |-> db]
        ELSE [outcome |-> "committed", named |-> {}, db |-> w.db]

\* run_commit as a whole: message is whether a commit message was given, paths
\* the files to commit (every *.j2 of the directory when no path list was
\* given), branch_by_path the branch directives, stop the number of loop
\* iterations after which the process is killed (more than the number of
\* files: it is not killed).
run_commit_result(db, message, paths, branch_by_path, stop) ==
    LET files_data == files_data_of(paths)
        dup == duplicates(files_data)
        ctx0 == commit_begin(db, files_data, branch_by_path)
        loop == commit_loop(db, ctx0, 1, stop)
    IN  IF ~message
        THEN [outcome |-> "CommitError", named |-> {}, db |-> db]
        ELSE IF Len(files_data) = 0
        THEN [outcome |-> "nothing_to_commit", named |-> {}, db |-> db]
        ELSE IF dup # {}
        THEN [outcome |-> "DuplicateTypeInCommitError", named |-> dup, db |-> db]
        ELSE IF loop.status # "ok"
        THEN [outcome |-> loop.status, named |-> loop.named, db |-> loop.db]
        ELSE commit_finish(loop.db, loop.ctx)

(***************************************************************************)
(* commands/uncommit.py                                                    *)
(***************************************************************************)
\* {row["type"]: (row["id"], row["version"]) for row in subs}: the row itself
\* stands for the pair; a later row of the same type overwrites an earlier one.
RECURSIVE TypeToRow(_)
TypeToRow(rows) ==
    IF Len(rows) = 0 THEN EmptyDict
    ELSE LET n == Len(rows)
         IN  Put(TypeToRow(SubSeq(rows, 1, n - 1)), rows[n].type, rows[n])

\* Lines 48-63: the ids of the sub-prompts that uncommit deletes.
to_delete(db, current, previous) ==
    LET current_ids == master_contents_to_ids(current.contents)
        previous_ids == master_contents_to_ids(previous.contents)
        current_by_type == TypeToRow(get_sub_prompts_by_ids(db.sub_prompts, current_ids))
        previous_by_type == TypeToRow(get_sub_prompts_by_ids(db.sub_prompts, previous_ids))
    IN  {current_by_type[t].id : t \in
            {t \in DOMAIN current_by_type :
                \/ t \notin DOMAIN previous_by_type
                \/ version_gt(current_by_type[t].version, previous_by_type[t].version)}}

\* Lines 65-68: one transaction.
uncommit_write(db, current, previous, ids) ==
    [db EXCEPT !.master_prompts =
                   set_current_master(delete_master_prompt(@, current.id), previous.id),
               !.sub_prompts = delete_sub_prompts(@, ids)]

\* run_uncommit as a whole; proceed is the answer to "Proceed? [y/N]" (TRUE
\* also when confirm = False and nothing is asked).
run_uncommit_result(db, proceed) ==
    LET current == get_current_master(db.master_prompts)
        previous == get_previous_master(db.master_prompts)
    IN  IF current.id = 0 \/ previous.id = 0
        THEN [outcome |-> "UncommitError", db |-> db]
        ELSE IF ~proceed
        THEN [outcome |-> "aborted", db |-> db]
        ELSE [outcome |-> "reverted",
              db |-> uncommit_write(db, current, previous,
                                    to_delete(db, current, previous))]

(***************************************************************************)
(* The store, and a record of the last command run against it.             *)
(***************************************************************************)
VARIABLES sub_prompts, master_prompts, sub_seq, master_seq, last, clients

vars == <<sub_prompts, master_prompts, sub_seq, master_seq, last, clients>>

Db == [sub_prompts |-> sub_prompts, master_prompts |-> master_prompts,
       sub_seq |-> sub_seq, master_seq |-> master_seq]

Tables(db) == [sub_prompts |-> db.sub_prompts, master_prompts |-> db.master_prompts]

NoTables == [sub_prompts |-> {}, master_prompts |-> {}]

\* last.op is the command, last.outcome how it ended, last.named the types its
\* error message names, last.pre the tables when it started.  For a commit:
\* mode ("full": no path list, "paths": a path list), files_data,
\* branch_by_path, cwd_types (the types that have a file in the working
\* directory) and repeat (the command before it was a commit of the same
\* working set that ended without an error).  For an uncommit: undoes (the
\* command before it was a commit that inserted a master) and undone_pre (the
\* tables when that commit started).
NoCommand ==
    [op |-> "init", outcome |-> "", named |-> {}, pre |-> NoTables,
     mode |-> "", files_data |-> <<>>, branch_by_path |-> EmptyDict, cwd_types |-> {},
     repeat |-> FALSE, undoes |-> FALSE, undone_pre |-> NoTables]

\* Two gpv processes that work on the same database file.
Clients == {"c1", "c2"}

\* A process that is not inside run_commit.  Inside it, pc is the statement
\* that runs next, ctx the locals of run_commit, i the index of the file the
\* loop is at and existing what its lookup by contents returned; outcome is
\* how the process's last commit ended and raised_at the step that raised
\* its exception.
NoClient ==
    [pc |-> "idle", outcome |-> "", raised_at |-> "", i |-> 0, existing |-> NoSub,
     ctx |-> [files_data |-> <<>>, branch_by_path |-> EmptyDict, current |-> NoMaster,
              current_subs |-> <<>>, current_by_type |-> EmptyDict,
              type_to_id |-> EmptyDict, id_to_version |-> EmptyDict,
              id_to_type |-> EmptyDict, inserted_any |-> FALSE]]

\* The state after init_schema: both tables exist and are empty.
Init ==
    /\ sub_prompts = {}
    /\ master_prompts = {}
    /\ sub_seq = 0
    /\ master_seq = 0
    /\ last = NoCommand
    /\ clients = [c \in Clients |-> NoClient]

SetDb(db) ==
    /\ sub_prompts' = db.sub_prompts
    /\ master_prompts' = db.master_prompts
    /\ sub_seq' = db.sub_seq
    /\ master_seq' = db.master_seq

Paths == Prefixes \X Types

\* The working sets of at most MaxFiles files.  The prefixes of n files are
\* 1..n: no two files have the same name.
FileSets ==
    UNION {{{[path |-> <<i, g[i][1]>>, contents |-> g[i][2]] : i \in 1..n} :
               g \in [1..n -> Types \X Contents]} : n \in 0..MaxFiles}

TypesOf(fs) == {extract_type_from_filename(f.path) : f \in fs}

\* The branch directives for the files fs: a parent for at most MaxBranches
\* of the paths.
BranchMaps(fs) ==
    UNION {[ps -> 1..MaxBranchPk] :
              ps \in {q \in SUBSET {f.path : f \in fs} : Cardinality(q) <= MaxBranches}}

\* File contents and type labels are opaque to the commands, which only
\* compare them for equality.  The contents (types) of a working set that no
\* row of sub_prompts has are therefore the least labels that no row has, in
\* the order in which the files first use them.
RECURSIVE FirstUses(_, _, _)
FirstUses(labels, i, held) ==
    IF i > Len(labels) THEN <<>>
    ELSE IF labels[i] \in held
    THEN FirstUses(labels, i + 1, held)
    ELSE <<labels[i]>> \o FirstUses(labels, i + 1, held \cup {labels[i]})

RECURSIVE Ascending(_)
Ascending(set) ==
    IF set = {} THEN <<>>
    ELSE LET least == CHOOSE c \in set : \A d \in set : c <= d
         IN  <<least>> \o Ascending(set \ {least})

LeastFree(labels, held, all) ==
    LET fresh == FirstUses(labels, 1, held)
    IN  fresh = SubSeq(Ascending(all \ held), 1, Len(fresh))

CanonicalLabels(files_data) ==
    /\ LeastFree([i \in 1..Len(files_data) |-> files_data[i].contents],
                 {r.contents : r \in sub_prompts}, Contents)
    /\ LeastFree([i \in 1..Len(files_data) |-> TypeRank[files_data[i].type_name]],
                 {TypeRank[r.type] : r \in sub_prompts}, {TypeRank[t] : t \in Types})

\* The points at which a commit may be killed: after any iteration of its
\* loop (the last one included: before the master is written).  One more than
\* the number of files: it is not killed.
Stops(files_data) ==
    IF Len(files_data) = 0 \/ duplicates(files_data) # {}
    THEN {Len(files_data) + 1}
    ELSE 1..(Len(files_data) + 1)

\* How a commit of `paths` may have been asked for, and whether it is
\* observed.  In mode "full" (no path list) paths is every *.j2 file of the
\* working directory; in mode "paths" (a path list with *.j2 files in it) the
\* directory may hold other files, of other types.
Askings(paths) ==
    {a \in [mode : {"full", "paths"}, cwd_types : SUBSET Types, observed : BOOLEAN] :
        /\ TypesOf(paths) \subseteq a.cwd_types
        /\ a.mode = "full" => a.cwd_types = TypesOf(paths)
        /\ a.mode = "paths" => paths # {}
        /\ Cardinality(a.cwd_types \ TypesOf(paths)) <= MaxFiles - Cardinality(paths)}

\* gpv commit -m <message> [-branch <pk> <path>]... [<path>...]
\* `last` is the record of an observed command; a command runs observed or
\* unobserved.
run_commit(message, paths, branch_by_path, stop, askings, repeat) ==
    \E r \in {run_commit_result(Db, message, paths, branch_by_path, stop)} :
        /\ r.db.sub_seq <= MaxSubs
        /\ r.db.master_seq <= MaxMasters
        /\ SetDb(r.db)
        /\ UNCHANGED clients
        /\ \E a \in askings :
              last' = IF a.observed
                      THEN [op |-> "commit", outcome |-> r.outcome, named |-> r.named,
                            pre |-> Tables(Db), mode |-> a.mode,
                            files_data |-> files_data_of(paths),
                            branch_by_path |-> branch_by_path,
                            cwd_types |-> a.cwd_types,
                            repeat |-> repeat, undoes |-> FALSE, undone_pre |-> NoTables]
                      ELSE NoCommand

\* gpv uncommit
run_uncommit(proceed, observed) ==
    \E r \in {run_uncommit_result(Db, proceed)} :
        /\ SetDb(r.db)
        /\ UNCHANGED clients
        /\ last' = IF observed
                   THEN [NoCommand EXCEPT
                            !.op = "uncommit", !.outcome = r.outcome, !.pre = Tables(Db),
                            !.undoes = (last.op = "commit" /\ last.outcome = "committed"),
                            !.undone_pre = IF last.op = "commit" /\ last.outcome = "committed"
                                           THEN last.pre ELSE NoTables]
                   ELSE NoCommand

\* A commit of any working set.
Commit ==
    /\ last = NoCommand
    /\ \E paths \in FileSets :
          /\ CanonicalLabels(files_data_of(paths))
          /\ \E branch_by_path \in BranchMaps(paths), stop \in Stops(files_data_of(paths)) :
              /\ branch_by_path # EmptyDict => stop > Cardinality(paths)
              /\ run_commit(TRUE, paths, branch_by_path, stop,
                            {a \in Askings(paths) :
                                \/ a.observed
                                \/ /\ branch_by_path = EmptyDict
                                   /\ stop > Cardinality(paths)},
                            FALSE)

\* gpv commit without -m: rejected before the working directory is read.
CommitNoMessage ==
    /\ last = NoCommand
    /\ \E observed \in BOOLEAN :
          run_commit(FALSE, {}, EmptyDict, 1,
                     {[mode |-> "full", cwd_types |-> {}, observed |-> observed]}, FALSE)

\* The commit that was just observed to write a master, run again at once:
\* the same files, contents, directives and mode.
CommitAgain ==
    /\ last.op = "commit"
    /\ last.outcome = "committed"
    /\ run_commit(TRUE,
                  {[path |-> last.files_data[i].path, contents |-> last.files_data[i].contents] :
                      i \in 1..Len(last.files_data)},
                  last.branch_by_path, Len(last.files_data) + 1,
                  {[mode |-> last.mode, cwd_types |-> last.cwd_types, observed |-> TRUE]},
                  TRUE)

Uncommit ==
    /\ last = NoCommand
    /\ \E proceed, observed \in BOOLEAN : run_uncommit(proceed, observed)

\* An uncommit right after an observed commit.
UncommitLast ==
    /\ last.op = "commit"
    /\ \E proceed \in BOOLEAN : run_uncommit(proceed, TRUE)

Next == Commit \/ CommitNoMessage \/ CommitAgain \/ Uncommit \/ UncommitLast

Spec == Init /\ [][Next]_vars

\* The histories in which a command follows an observed one: the record of
\* the last command is dropped, the tables stay.  Branch directives, which
\* Spec has in observed commits only, are followed by further commands here;
\* no commit is killed.
Forget ==
    /\ last # NoCommand
    /\ last' = NoCommand
    /\ UNCHANGED <<sub_prompts, master_prompts, sub_seq, master_seq, clients>>

\* A commit of any working set that runs to its end and is always observed.
CommitHist ==
    /\ last = NoCommand
    /\ \E paths \in FileSets :
          /\ CanonicalLabels(files_data_of(paths))
          /\ \E branch_by_path \in BranchMaps(paths) :
                run_commit(TRUE, paths, branch_by_path, Cardinality(paths) + 1,
                           {[mode |-> "full", cwd_types |-> TypesOf(paths), observed |-> TRUE]},
                           FALSE)

NextHist == CommitHist \/ Uncommit \/ Forget

SpecHist == Init /\ [][NextHist]_vars

(***************************************************************************)
(* versioning.py called on version strings.  `last` is the record of a     *)
(* call: its two arguments and what it returned.                           *)
(***************************************************************************)
RECURSIVE TextsOfLength(_)
TextsOfLength(n) ==
    IF n = 0 THEN {<<>>}
    ELSE {Append(t, d) : t \in TextsOfLength(n - 1), d \in VerDigits}

SegmentTexts == UNION {TextsOfLength(n) : n \in 1..MaxDigits}

RECURSIVE VersionsOfLength(_)
VersionsOfLength(n) ==
    IF n = 0 THEN {<<>>}
    ELSE {Append(v, t) : v \in VersionsOfLength(n - 1), t \in SegmentTexts}

VersionTexts == UNION {VersionsOfLength(n) : n \in 1..MaxSegments}

InitVer ==
    /\ sub_prompts = {}
    /\ master_prompts = {}
    /\ sub_seq = 0
    /\ master_seq = 0
    /\ clients = [c \in Clients |-> NoClient]
    /\ \E a, b \in VersionTexts :
          last = [op |-> "versions", a |-> a, b |-> b, out |-> <<>>]

\* increment_version(a)
IncrementVersion ==
    /\ last.op = "versions"
    /\ last' = [last EXCEPT !.op = "increment_version",
                            !.out = <<increment_version_text(last.a)>>]
    /\ UNCHANGED <<sub_prompts, master_prompts, sub_seq, master_seq, clients>>

\* version_gt(a, b) and version_gt(b, a)
VersionGt ==
    /\ last.op = "versions"
    /\ last' = [last EXCEPT !.op = "version_gt",
                            !.out = <<version_gt_text(last.a, last.b),
                                      version_gt_text(last.b, last.a)>>]
    /\ UNCHANGED <<sub_prompts, master_prompts, sub_seq, master_seq, clients>>

NextVer == IncrementVersion \/ VersionGt

SpecVer == InitVer /\ [][NextVer]_vars

(***************************************************************************)
(* Two processes that run gpv commit on the same database.  Every SQL      *)
(* statement outside a transaction, and every transaction, is one step:    *)
(* SQLite serialises them.  The processes commit without branch            *)
(* directives, and no row is deleted while they run.                       *)
(***************************************************************************)
\* The files of the commits that are under way in other processes than c.
FilesUnderWay(c) ==
    UNION {{clients[d].ctx.files_data[k] : k \in 1..Len(clients[d].ctx.files_data)} :
              d \in {e \in Clients \ {c} : clients[e].pc # "idle"}}

\* The rows and masters that the commits under way may still insert.
RowsUnderWay ==
    LET n(c) == IF clients[c].pc = "idle" THEN 0
                ELSE Len(clients[c].ctx.files_data) + 1 - clients[c].i
        RECURSIVE sum(_)
        sum(cs) == IF cs = {} THEN 0
                   ELSE LET c == CHOOSE x \in cs : TRUE IN n(c) + sum(cs \ {c})
    IN  sum(Clients)

MastersUnderWay == Cardinality({c \in Clients : clients[c].pc # "idle"})

\* The files_data of the working sets that get as far as the database: some
\* file, and no two files of one type.
WorkingSets ==
    {files_data_of(paths) :
        paths \in {p \in FileSets : p # {} /\ duplicates(files_data_of(p)) = {}}}

\* Lines 84-143: the process reads its files and the current master.
Begin(c) ==
    /\ last = NoCommand
    /\ clients[c].pc = "idle"
    /\ \E files_data \in WorkingSets :
          LET n == Len(files_data)
          IN  /\ sub_seq + RowsUnderWay + n <= MaxSubs
              /\ master_seq + MastersUnderWay + 1 <= MaxMasters
              /\ LeastFree([i \in 1..n |-> files_data[i].contents],
                           {r.contents : r \in sub_prompts}
                               \cup {f.contents : f \in FilesUnderWay(c)},
                           Contents)
              /\ LeastFree([i \in 1..n |-> TypeRank[files_data[i].type_name]],
                           {TypeRank[r.type] : r \in sub_prompts}
                               \cup {TypeRank[f.type_name] : f \in FilesUnderWay(c)},
                           {TypeRank[t] : t \in Types})
              /\ clients' = [clients EXCEPT ![c] =
                                [pc |-> "lookup", outcome |-> "", raised_at |-> "", i |-> 1,
                                 existing |-> NoSub,
                                 ctx |-> commit_begin(Db, files_data, EmptyDict)]]
    /\ UNCHANGED <<sub_prompts, master_prompts, sub_seq, master_seq, last>>

\* Line 146: the lookup by contents.
Lookup(c) ==
    /\ clients[c].pc = "lookup"
    /\ clients' = [clients EXCEPT
                      ![c].pc = "file",
                      ![c].existing =
                          get_sub_prompt_by_contents(sub_prompts,
                              clients[c].ctx.files_data[clients[c].i].contents)]
    /\ UNCHANGED <<sub_prompts, master_prompts, sub_seq, master_seq, last>>

\* Lines 147-189: the rest of the iteration.  An exception ends the process.
File(c) ==
    /\ clients[c].pc = "file"
    /\ LET cl == clients[c]
           r == commit_file(Db, cl.ctx, cl.ctx.files_data[cl.i], cl.existing)
       IN  /\ SetDb(r.db)
           /\ clients' = [clients EXCEPT ![c] =
                 IF r.status # "ok"
                 THEN [NoClient EXCEPT !.outcome = r.status, !.raised_at = "file"]
                 ELSE [cl EXCEPT !.pc = IF cl.i = Len(cl.ctx.files_data)
                                       THEN "finish" ELSE "lookup",
                                 !.i = cl.i + 1,
                                 !.existing = NoSub,
                                 !.ctx = r.ctx]]
    /\ UNCHANGED last

\* Lines 191-244: the new master, from what the process has read.
Finish(c) ==
    /\ clients[c].pc = "finish"
    /\ \E r \in {commit_finish(Db, clients[c].ctx)} :
          /\ SetDb(r.db)
          /\ clients' = [clients EXCEPT ![c] =
                            [NoClient EXCEPT
                                !.outcome = r.outcome,
                                !.raised_at = IF r.outcome \in {"committed", "nothing_to_commit"}
                                              THEN "" ELSE "finish"]]
    /\ UNCHANGED last

NextConc == \E c \in Clients : Begin(c) \/ Lookup(c) \/ File(c) \/ Finish(c)

SpecConc == Init /\ [][NextConc]_vars

(***************************************************************************)
(* gpv uncommit, statement by statement.                                   *)
(*                                                                         *)
(* uncommit.py 65-68 runs its writes inside one "with conn:" block.  The   *)
(* helpers of db.py execute their statements and never commit, and connect *)
(* leaves sqlite3's isolation level at its default, so the first DELETE    *)
(* opens a transaction that ends when the block is left: with a COMMIT if  *)
(* it is left normally, with a ROLLBACK if an exception leaves it.  A      *)
(* process killed inside the block leaves a journal behind, and the next   *)
(* connection rolls the file back to what it held before the transaction.  *)
(*                                                                         *)
(* The uncommitting process is client "c1": pc is the statement that runs  *)
(* next and ctx holds seen (the tables as its connection sees them) and    *)
(* the locals current, previous and ids.  The database variables are what  *)
(* the file holds for every other connection.                              *)
(***************************************************************************)
Uncommitter == "c1"

\* The statements of the block in the order they run; set_current_master is
\* two UPDATEs.
UncommitStatements == <<"delete_master", "clear_current", "set_current", "delete_subs">>

\* db.py 187: UPDATE master_prompts SET is_current = 1 WHERE id = ?
flag_current_master(masters, master_id) ==
    {[m EXCEPT !.is_current = IF m.id = master_id THEN 1 ELSE @] : m \in masters}

\* What the statement at pc does to the tables the connection sees.
\* delete_sub_prompts returns before any statement when ids is empty.
uncommit_statement(seen, pc, current, previous, ids) ==
    CASE pc = "delete_master" ->
            [seen EXCEPT !.master_prompts = delete_master_prompt(@, current.id)]
      [] pc = "clear_current" ->
            [seen EXCEPT !.master_prompts = clear_current_master(@)]
      [] pc = "set_current" ->
            [seen EXCEPT !.master_prompts = flag_current_master(@, previous.id)]
      [] pc = "delete_subs" ->
            [seen EXCEPT !.sub_prompts = delete_sub_prompts(@, ids)]

next_statement(pc) ==
    CASE pc = "delete_master" -> "clear_current"
      [] pc = "clear_current" -> "set_current"
      [] pc = "set_current" -> "delete_subs"
      [] pc = "delete_subs" -> "commit"

\* A connection that commits every statement as it is executed.
durable_after_statement_autocommit(on_disk, seen) == seen

\* What the file holds after a statement of the open transaction: what it
\* held before it.
durable_after_statement(on_disk, seen) == on_disk

SetTables(tables) ==
    /\ sub_prompts' = tables.sub_prompts
    /\ master_prompts' = tables.master_prompts
    /\ UNCHANGED <<sub_seq, master_seq>>

\* A commit that is not observed: it builds the history an uncommit undoes.
CommitBefore ==
    /\ last = NoCommand
    /\ \E paths \in FileSets :
          /\ CanonicalLabels(files_data_of(paths))
          /\ \E branch_by_path \in BranchMaps(paths) :
                run_commit(TRUE, paths, branch_by_path, Cardinality(paths) + 1,
                           {[mode |-> "full", cwd_types |-> TypesOf(paths),
                             observed |-> FALSE]},
                           FALSE)

\* uncommit.py 29-63: the checks, the prompt and the list of rows to delete.
UncommitBegin ==
    /\ last = NoCommand
    /\ clients[Uncommitter].pc = "idle"
    /\ \E proceed \in BOOLEAN :
          LET current == get_current_master(master_prompts)
              previous == get_previous_master(master_prompts)
              outcome == IF current.id = 0 \/ previous.id = 0 THEN "UncommitError"
                         ELSE IF ~proceed THEN "aborted"
                         ELSE "running"
          IN  /\ last' = [NoCommand EXCEPT !.op = "uncommit", !.outcome = outcome,
                                           !.pre = Tables(Db)]
              /\ clients' = IF outcome = "running"
                            THEN [clients EXCEPT ![Uncommitter] =
                                     [NoClient EXCEPT
                                         !.pc = "delete_master",
                                         !.ctx = [seen |-> Tables(Db),
                                                  current |-> current,
                                                  previous |-> previous,
                                                  ids |-> to_delete(Db, current, previous)]]]
                            ELSE clients
    /\ UNCHANGED <<sub_prompts, master_prompts, sub_seq, master_seq>>

\* One statement of lines 66-68.
UncommitStatement ==
    LET me == clients[Uncommitter]
    IN  /\ \E k \in 1..Len(UncommitStatements) : me.pc = UncommitStatements[k]
        /\ \E seen \in {uncommit_statement(me.ctx.seen, me.pc, me.ctx.current,
                                           me.ctx.previous, me.ctx.ids)} :
              /\ SetTables(durable_after_statement(Tables(Db), seen))
              /\ clients' = [clients EXCEPT ![Uncommitter].pc = next_statement(me.pc),
                                            ![Uncommitter].ctx.seen = seen]
        /\ UNCHANGED last

\* The block is left normally: COMMIT.
UncommitCommit ==
    /\ clients[Uncommitter].pc = "commit"
    /\ SetTables(clients[Uncommitter].ctx.seen)
    /\ clients' = [clients EXCEPT ![Uncommitter] = [NoClient EXCEPT !.outcome = "reverted"]]
    /\ last' = [last EXCEPT !.outcome = "reverted"]

\* The process is killed, or a statement raises, before the COMMIT: the
\* transaction is rolled back, and the file holds what it held.
UncommitInterrupt ==
    LET me == clients[Uncommitter]
    IN  /\ \/ \E k \in 1..Len(UncommitStatements) : me.pc = UncommitStatements[k]
           \/ me.pc = "commit"
        /\ clients' = [clients EXCEPT ![Uncommitter] =
                          [NoClient EXCEPT !.outcome = "interrupted", !.raised_at = me.pc]]
        /\ last' = [last EXCEPT !.outcome = "interrupted"]
        /\ UNCHANGED <<sub_prompts, master_prompts, sub_seq, master_seq>>

NextUndo ==
    \/ CommitBefore
    \/ UncommitBegin
    \/ UncommitStatement
    \/ UncommitCommit
    \/ UncommitInterrupt

SpecUndo == Init /\ [][NextUndo]_vars

(***************************************************************************)
(* Properties.                                                             *)
(***************************************************************************)
CurrentMasters(masters) == {m \in masters : m.is_current = 1}

HasCurrent(tables) == CurrentMasters(tables.master_prompts) # {}

Committed == last.op = "commit" /\ last.outcome = "committed"

\* The ids of the current master, in slot order.
CurrentIds == master_contents_to_ids(get_current_master(master_prompts).contents)

\* The rows the last command added to sub_prompts.
NewSubs == sub_prompts \ last.pre.sub_prompts

\* C1: in every reachable state at most one master_prompts row has
\* is_current = 1.
C1_AtMostOneCurrent == Cardinality(CurrentMasters(master_prompts)) <= 1

\* A commit has replaced a current master by a new one.
C1_Witness ==
    /\ Committed
    /\ HasCurrent(last.pre)
    /\ Cardinality(master_prompts) >= 2
    /\ Cardinality(CurrentMasters(master_prompts)) = 1

\* C2: an uncommit that directly follows a successful commit made from a
\* state S with a current master leaves both tables equal to S.
C2_UncommitRestores ==
    (/\ last.op = "uncommit"
     /\ last.outcome = "reverted"
     /\ last.undoes
     /\ HasCurrent(last.undone_pre))
    => Tables(Db) = last.undone_pre

\* C3: a commit that fails after its input was validated (a branch directive
\* whose parent is missing or of another type, a duplicate type in the
\* current master, a rejected insert) or that is interrupted leaves both
\* tables as they were before it.
C3_AllOrNothing ==
    (/\ last.op = "commit"
     /\ last.files_data # <<>>
     /\ last.outcome \in {"CommitError", "DuplicateTypeInCurrentError",
                          "IntegrityError", "interrupted"})
    => Tables(Db) = last.pre

\* C4: in every reachable state no two sub_prompts rows have the same
\* contents, whatever their types.
C4_ContentsUnique ==
    \A r, q \in sub_prompts : r.contents = q.contents => r = q

\* A process found no row with its file's contents, another process inserted
\* one, and the first process's insert was rejected.
C4_Witness ==
    \E c \in Clients :
        /\ clients[c].outcome = "IntegrityError"
        /\ clients[c].raised_at = "file"
        /\ sub_prompts # {}

\* C5: a committed file whose content is already in a sub_prompts row gets no
\* new row, and the new master holds the id of that row in the file's slot.
C5_ReusesExisting ==
    last.op = "commit" =>
        \A i \in 1..Len(last.files_data) :
            LET existing == get_sub_prompt_by_contents(last.pre.sub_prompts,
                                                       last.files_data[i].contents)
            IN  existing.id # 0 =>
                    /\ \A r \in NewSubs : r.contents # existing.contents
                    /\ Committed => /\ i <= Len(CurrentIds)
                                    /\ CurrentIds[i] = existing.id

\* A commit has made a master out of a row that was in the store, under a
\* file of another type than the row's.
C5_Witness ==
    /\ Committed
    /\ \E i \in 1..Len(last.files_data) :
          LET existing == get_sub_prompt_by_contents(last.pre.sub_prompts,
                                                     last.files_data[i].contents)
          IN  /\ existing.id # 0
              /\ existing.type # last.files_data[i].type_name
              /\ CurrentIds[i] = existing.id

\* The outcomes that are exceptions.
Errors == {"CommitError", "DuplicateTypeInCommitError", "DuplicateTypeInCurrentError",
           "IntegrityError"}

\* The ids of the master that was current before the last command, and the
\* types of their rows.
PreCurrentIds == master_contents_to_ids(get_current_master(last.pre.master_prompts).contents)

PreCurrentTypes ==
    {get_sub_prompt_by_id(last.pre.sub_prompts, PreCurrentIds[k]).type :
        k \in 1..Len(PreCurrentIds)}

CommittedTypes == {last.files_data[i].type_name : i \in 1..Len(last.files_data)}

\* C6: the working set of a commit that wrote a master, committed again at
\* once, writes nothing and ends as "nothing to commit".
C6_RepeatIsNoOp ==
    (last.op = "commit" /\ last.repeat)
    => /\ last.outcome = "nothing_to_commit"
       /\ Tables(Db) = last.pre

\* The type of slot k of the master a commit wrote: the slots of the
\* committed files come first, in file order; the slots after them hold
\* fragments of the master that was current.
SlotType(k) ==
    IF k <= Len(last.files_data)
    THEN last.files_data[k].type_name
    ELSE get_sub_prompt_by_id(sub_prompts, CurrentIds[k]).type

\* C7: the master written by a full commit has no slot of a type that the
\* current master had and the working set has no file for.
C7_FullCommitDrops ==
    (Committed /\ last.mode = "full" /\ HasCurrent(last.pre))
    => \A k \in 1..Len(CurrentIds) :
          SlotType(k) \notin PreCurrentTypes \ CommittedTypes

\* C8: with a current master, a commit of a path list that has a file of a
\* type the current master does not have ends in an error that names the
\* type, and both tables are as before.
C8_PartialRejectsNewType ==
    (/\ last.op = "commit"
     /\ last.mode = "paths"
     /\ last.outcome # "interrupted"
     /\ HasCurrent(last.pre))
    => \A t \in CommittedTypes \ PreCurrentTypes :
          /\ last.outcome \in Errors
          /\ t \in last.named
          /\ Tables(Db) = last.pre

\* C9: a commit of a path list ends in an error that names the type T, and
\* both tables are as before, when the current master has a fragment of type
\* T, the path list has no file of type T and neither has the directory.
C9_PartialRejectsMissingFile ==
    (/\ last.op = "commit"
     /\ last.mode = "paths"
     /\ last.outcome # "interrupted"
     /\ HasCurrent(last.pre))
    => \A t \in PreCurrentTypes \ (CommittedTypes \cup last.cwd_types) :
          /\ last.outcome \in Errors
          /\ t \in last.named
          /\ Tables(Db) = last.pre

\* C10: the master written by a commit of a path list whose types are all in
\* the current master has as many slots as the current master, the same type
\* in every slot, and the same fragment in every slot whose type has no file
\* in the path list.  Stated for a current master with one fragment per type.
C10_PartialKeepsOrder ==
    (/\ Committed
     /\ last.mode = "paths"
     /\ HasCurrent(last.pre)
     /\ Cardinality(PreCurrentTypes) = Len(PreCurrentIds)
     /\ CommittedTypes \subseteq PreCurrentTypes)
    => /\ Len(CurrentIds) = Len(PreCurrentIds)
       /\ \A k \in 1..Len(CurrentIds) :
             /\ k <= Len(PreCurrentIds)
             /\ SlotType(k) = get_sub_prompt_by_id(last.pre.sub_prompts, PreCurrentIds[k]).type
             /\ SlotType(k) \notin CommittedTypes => CurrentIds[k] = PreCurrentIds[k]

\* The types that two files of the last commit's working set share.
SharedTypes ==
    {t \in Types : \E i, j \in 1..Len(last.files_data) :
        i # j /\ last.files_data[i].type_name = t /\ last.files_data[j].type_name = t}

PlainCommit ==
    /\ last.op = "commit"
    /\ last.outcome # "interrupted"
    /\ last.branch_by_path = EmptyDict

\* The files of the last commit have pairwise distinct types and contents.
FilesDistinct ==
    \A i, j \in 1..Len(last.files_data) :
        i # j => /\ last.files_data[i].type_name # last.files_data[j].type_name
                 /\ last.files_data[i].contents # last.files_data[j].contents

PreCurrentOfType(t) ==
    {p \in last.pre.sub_prompts :
        p.type = t /\ \E k \in 1..Len(PreCurrentIds) : PreCurrentIds[k] = p.id}

\* The row the last commit inserted for its i-th file, if it inserted one.
InsertedFor(i) ==
    {r \in NewSubs : /\ r.contents = last.files_data[i].contents
                     /\ r.type = last.files_data[i].type_name}

\* C13: the row a commit inserts for a file without branch directive has
\* version 1 and NULL parent when the current master has no fragment of the
\* file's type (or there is no current master); otherwise its parent is a
\* fragment of that type of the current master and its version the increment
\* of the parent's version.
C13_PlainVersionAndParent ==
    last.op = "commit" =>
        \A i \in 1..Len(last.files_data) :
            last.files_data[i].path \notin DOMAIN last.branch_by_path =>
                \A r \in InsertedFor(i) :
                    IF PreCurrentOfType(r.type) = {}
                    THEN r.version = <<1>> /\ r.parent_id = 0
                    ELSE \E p \in PreCurrentOfType(r.type) :
                            /\ r.parent_id = p.id
                            /\ r.version = increment_version(p.version)

\* A commit inserted a row for a file whose type the current master has, and
\* another for a file whose type it lacks.
C13_Witness ==
    /\ last.op = "commit"
    /\ last.branch_by_path = EmptyDict
    /\ \E i, j \in 1..Len(last.files_data) :
          /\ InsertedFor(i) # {} /\ PreCurrentOfType(last.files_data[i].type_name) # {}
          /\ InsertedFor(j) # {} /\ PreCurrentOfType(last.files_data[j].type_name) = {}

\* The i-th file of the last commit has a branch directive that names a
\* fragment of the file's type of the current master, and its content was in
\* no row when the commit reached the file.
BranchesFromCurrent(i) ==
    LET f == last.files_data[i]
    IN  /\ f.path \in DOMAIN last.branch_by_path
        /\ \E p \in PreCurrentOfType(f.type_name) : p.id = last.branch_by_path[f.path]
        /\ \A r \in last.pre.sub_prompts : r.contents # f.contents
        /\ \A j \in 1..(i - 1) : last.files_data[j].contents # f.contents

\* C14: a commit with a branch directive that names the current master's
\* fragment of the file's type, for content that is in no row, inserts a row
\* whose parent is the named fragment and whose version is the branch of the
\* parent's version; the master it writes has the branch of the previous
\* current master's version.  Stated for working sets without two files of
\* one type.
C14_BranchFromCurrent ==
    (last.op = "commit" /\ last.outcome # "interrupted" /\ SharedTypes = {}) =>
        \A i \in 1..Len(last.files_data) :
            BranchesFromCurrent(i) =>
                LET f == last.files_data[i]
                    p == get_sub_prompt_by_id(last.pre.sub_prompts, last.branch_by_path[f.path])
                IN  /\ \E r \in InsertedFor(i) :
                          /\ r.parent_id = p.id
                          /\ r.version = branch_version(p.version)
                    /\ Committed =>
                          get_current_master(master_prompts).version =
                              branch_version(get_current_master(last.pre.master_prompts).version)

\* Some fragment of the new current master has more version segments than a
\* fragment of its type of the master that was current before.
SomeBranched ==
    \E k \in 1..Len(CurrentIds) :
        LET r == get_sub_prompt_by_id(sub_prompts, CurrentIds[k])
        IN  \E p \in PreCurrentOfType(r.type) : Len(r.version) > Len(p.version)

\* C15: the master a commit writes has version 1 when there was no current
\* master; otherwise the branch of the current master's version when some
\* fragment of the new master has more version segments than the current
\* master's fragment of its type, and the increment of the current master's
\* version when none has.
C15_MasterVersion ==
    Committed =>
        LET new == get_current_master(master_prompts).version
            old == get_current_master(last.pre.master_prompts).version
        IN  IF ~HasCurrent(last.pre) THEN new = <<1>>
            ELSE IF SomeBranched THEN new = branch_version(old)
            ELSE new = increment_version(old)

\* C16: an uncommit when there is no current master, or when the current
\* master has NULL for parent, ends in UncommitError and leaves both tables
\* as they were.
C16_UncommitNeedsParent ==
    (/\ last.op = "uncommit"
     /\ \/ ~HasCurrent(last.pre)
        \/ get_current_master(last.pre.master_prompts).parent_id = 0)
    => /\ last.outcome = "UncommitError"
       /\ Tables(Db) = last.pre

\* An uncommit against a first master that lists a fragment.
C16_Witness ==
    /\ last.op = "uncommit"
    /\ HasCurrent(last.pre)
    /\ get_current_master(last.pre.master_prompts).parent_id = 0
    /\ last.pre.sub_prompts # {}
    /\ last.outcome = "UncommitError"

\* C17: in every reachable state every id in the contents of a
\* master_prompts row, current or not, is the id of a sub_prompts row.
C17_NoDanglingFragment ==
    \A m \in master_prompts :
        \A k \in 1..Len(master_contents_to_ids(m.contents)) :
            \E r \in sub_prompts : r.id = master_contents_to_ids(m.contents)[k]

\* The id list the last commit composed, read from the tables: the row that
\* holds each file's content, in file order, then the rows of the master that
\* was current whose type no file has.
ComposedIds ==
    [i \in 1..Len(last.files_data) |->
        get_sub_prompt_by_contents(sub_prompts, last.files_data[i].contents).id]
    \o SelectSeq(PreCurrentIds,
                 LAMBDA id : \E r \in last.pre.sub_prompts :
                                r.id = id /\ r.type \notin CommittedTypes)

\* The last command was a commit that went through all its files and composed
\* an id list.
ReachedCompose ==
    /\ last.op = "commit"
    /\ last.outcome \in {"committed", "nothing_to_commit", "IntegrityError"}
    /\ Len(last.files_data) >= 1
    /\ \A i \in 1..Len(last.files_data) :
          \E r \in sub_prompts : r.contents = last.files_data[i].contents

\* C18: no two master_prompts rows hold the same id list, and a commit that
\* composes the id list of a master other than the current one is rejected:
\* it ends in an error and master_prompts is as before, the current master
\* still current.
C18_DuplicateMasterRejected ==
    /\ \A m, n \in master_prompts :
          master_contents_to_ids(m.contents) = master_contents_to_ids(n.contents) => m = n
    /\ (/\ ReachedCompose
        /\ \E m \in last.pre.master_prompts :
              m.is_current = 0 /\ master_contents_to_ids(m.contents) = ComposedIds)
       => /\ last.outcome = "IntegrityError"
          /\ master_prompts = last.pre.master_prompts

\* A commit composed the id list of an older master and was rejected.
C18_Witness ==
    /\ ReachedCompose
    /\ HasCurrent(last.pre)
    /\ \E m \in last.pre.master_prompts :
          m.is_current = 0 /\ master_contents_to_ids(m.contents) = ComposedIds
    /\ last.outcome = "IntegrityError"
    /\ HasCurrent(Tables(Db))

\* The master_prompts rows whose id the table did not have before the last
\* command.
InsertedMasters ==
    {m \in master_prompts : \A q \in last.pre.master_prompts : q.id # m.id}

\* C19: after a commit that inserted a master_prompts row, that row is the
\* only one flagged current, its parent is the master that was current before
\* the commit (NULL when there was none), and every other row is as before,
\* but for the flag of the one that was current.
C19_NewMasterIsCurrent ==
    (last.op = "commit" /\ InsertedMasters # {})
    => /\ Cardinality(InsertedMasters) = 1
       /\ CurrentMasters(master_prompts) = InsertedMasters
       /\ \A m \in InsertedMasters :
             m.parent_id = get_current_master(last.pre.master_prompts).id
       /\ master_prompts \ InsertedMasters =
             {[q EXCEPT !.is_current = 0] : q \in last.pre.master_prompts}

\* A commit inserted a master while another was current.
C19_Witness ==
    /\ last.op = "commit"
    /\ InsertedMasters # {}
    /\ HasCurrent(last.pre)
    /\ Cardinality(last.pre.master_prompts) >= 2

\* C20: in every reachable state no master_prompts row lists an id twice or
\* lists two sub_prompts rows of one type.
C20_OneFragmentPerType ==
    \A m \in master_prompts :
        LET ids == master_contents_to_ids(m.contents)
        IN  \A j, k \in 1..Len(ids) :
                j # k => /\ ids[j] # ids[k]
                         /\ \A r, q \in sub_prompts :
                               (r.id = ids[j] /\ q.id = ids[k]) => r.type # q.type

\* The i-th file of the last commit has a branch directive, and its content
\* was in no row when the commit reached the file.
NewWithDirective(i) ==
    LET f == last.files_data[i]
    IN  /\ f.path \in DOMAIN last.branch_by_path
        /\ \A r \in last.pre.sub_prompts : r.contents # f.contents
        /\ \A j \in 1..(i - 1) : last.files_data[j].contents # f.contents

\* The directive of the i-th file names no row, or a row of another type.
BadParent(i) ==
    LET f == last.files_data[i]
        p == get_sub_prompt_by_id(last.pre.sub_prompts, last.branch_by_path[f.path])
    IN  p.id = 0 \/ p.type # f.type_name

\* C21: a commit with a branch directive, for content that is in no row,
\* whose named parent does not exist or has another type than the file ends
\* in an error (CommitError unless two files share a type), and
\* master_prompts is as before: no master inserted, the current one current.
C21_BadParentRejected ==
    (last.op = "commit" /\ last.outcome # "interrupted") =>
        \A i \in 1..Len(last.files_data) :
            (NewWithDirective(i) /\ BadParent(i)) =>
                /\ last.outcome \in Errors
                /\ SharedTypes = {} => last.outcome = "CommitError"
                /\ master_prompts = last.pre.master_prompts

\* A directive that names a row of another type, with a current master.
C21_Witness ==
    /\ last.op = "commit"
    /\ last.outcome = "CommitError"
    /\ HasCurrent(last.pre)
    /\ \E i \in 1..Len(last.files_data) :
          /\ NewWithDirective(i)
          /\ get_sub_prompt_by_id(last.pre.sub_prompts,
                                  last.branch_by_path[last.files_data[i].path]).id # 0
          /\ BadParent(i)

\* C22: for every version string v, increment_version(v) has as many
\* segments as v and version_gt(increment_version(v), v) is true.
C22_IncrementIsGreater ==
    last.op = "increment_version" =>
        /\ version_segment_count_text(last.out[1]) = version_segment_count_text(last.a)
        /\ version_gt_text(last.out[1], last.a)

\* The increment of a version whose last segment has a leading zero and ends
\* in 9: the segment becomes 10.
C22_Witness ==
    /\ last.op = "increment_version"
    /\ Len(last.a) = 2
    /\ last.a[2] = <<0, 9>>
    /\ last.out[1][2] = <<1, 0>>

\* Two version strings have the same integer segments once the shorter is
\* padded with zero segments.
PaddedEqual(a, b) ==
    \A i \in 1..Max(Len(a), Len(b)) :
        Segment(split_ints(a), i) = Segment(split_ints(b), i)

\* version_gt never holds of a version and itself, and is transitive.
GtIrreflexiveTransitive ==
    /\ ~version_gt_text(last.a, last.a)
    /\ \A c \in VersionTexts :
          (last.out[1] /\ version_gt_text(last.b, c)) => version_gt_text(last.a, c)

\* C23 as claimed: version_gt is irreflexive and transitive, and of two
\* distinct version strings exactly one is greater than the other.
C23_StrictTotalOrder ==
    last.op = "version_gt" =>
        /\ GtIrreflexiveTransitive
        /\ last.a # last.b => (last.out[1] # last.out[2])

\* C23 as amended: version_gt is irreflexive and transitive, never holds both
\* ways, and holds neither way exactly when the two strings have the same
\* integer segments after padding the shorter with zeros.
C23_StrictWeakOrder ==
    last.op = "version_gt" =>
        /\ GtIrreflexiveTransitive
        /\ ~(last.out[1] /\ last.out[2])
        /\ (~last.out[1] /\ ~last.out[2]) <=> PaddedEqual(last.a, last.b)

\* Two strings of different length with the same first segment, the longer
\* the greater.
C23_Witness ==
    /\ last.op = "version_gt"
    /\ Len(last.a) > Len(last.b)
    /\ last.a[1] = last.b[1]
    /\ last.out = <<TRUE, FALSE>>

\* The last command was an uncommit that reverted a master.
Reverted == last.op = "uncommit" /\ last.outcome = "reverted"

\* The ids listed by the master that was current before the last command, and
\* by its parent.
IdsOf(m) == {master_contents_to_ids(m.contents)[k] : k \in 1..Len(master_contents_to_ids(m.contents))}

PreCurrentIdSet == IdsOf(get_current_master(last.pre.master_prompts))

PrePreviousIdSet == IdsOf(get_previous_master(last.pre.master_prompts))

\* C24: an uncommit that reverts deletes exactly the sub_prompts rows whose
\* id is in the current master's contents and not in the previous master's.
C24_DeletesExactlyNewIds ==
    Reverted =>
        /\ sub_prompts \subseteq last.pre.sub_prompts
        /\ last.pre.sub_prompts \ sub_prompts =
              {r \in last.pre.sub_prompts : r.id \in PreCurrentIdSet \ PrePreviousIdSet}

\* The last command was an uncommit that reverted the commit observed right
\* before it; last.undone_pre holds the tables from before that commit.
RevertedLast == Reverted /\ last.undoes

\* C25: every sub_prompts row that existed before the undone commit started
\* exists unchanged after the uncommit.
C25_KeepsOlderRows ==
    RevertedLast => last.undone_pre.sub_prompts \subseteq sub_prompts

\* C26: after the uncommit no sub_prompts row remains that the undone commit
\* inserted, by increment or by branch directive.
C26_DeletesInsertedRows ==
    RevertedLast =>
        \A r \in sub_prompts : \E q \in last.undone_pre.sub_prompts : q.id = r.id

\* C27: in every reachable state a sub_prompts row whose parent_id is not
\* NULL and names an existing row has a version greater, by version_gt, than
\* the version of that row.
C27_FragmentAboveParent ==
    \A r, q \in sub_prompts :
        (r.parent_id # 0 /\ q.id = r.parent_id) => version_gt(r.version, q.version)

\* A store with a row branched from its parent and a row incremented from a
\* branched parent.
C27_Witness ==
    \E r, q, t \in sub_prompts :
        /\ q.parent_id = r.id /\ Len(q.version) = Len(r.version) + 1
        /\ t.parent_id = q.id /\ Len(t.version) = Len(q.version)

\* The tables an uncommit that starts on `tables` leaves when it completes.
AfterUncommit(tables) ==
    LET current == get_current_master(tables.master_prompts)
        previous == get_previous_master(tables.master_prompts)
    IN  uncommit_write(tables, current, previous, to_delete(tables, current, previous))

UncommitStarted ==
    last.op = "uncommit" /\ last.outcome \in {"running", "interrupted", "reverted"}

\* C28: from the first statement of an uncommit on, whether it completes, is
\* interrupted or fails at any statement, the file holds either the tables
\* the uncommit started on or the tables a completed uncommit leaves; in
\* particular it never holds masters without a current one, and never lacks
\* a fragment while the undone master is still there.
C28_UncommitAtomic ==
    UncommitStarted =>
        /\ Tables(Db) \in {last.pre, AfterUncommit(last.pre)}
        /\ last.outcome = "interrupted" => Tables(Db) = last.pre
        /\ last.outcome = "reverted" => Tables(Db) = AfterUncommit(last.pre)
        /\ master_prompts # {} => CurrentMasters(master_prompts) # {}
        /\ sub_prompts # last.pre.sub_prompts =>
              get_current_master(last.pre.master_prompts) \notin master_prompts

\* An uncommit that had deleted the master, flagged the previous one and was
\* about to delete a fragment when it was interrupted.
C28_Witness ==
    /\ last.op = "uncommit"
    /\ last.outcome = "interrupted"
    /\ clients[Uncommitter].raised_at \in {"delete_subs", "commit"}
    /\ AfterUncommit(last.pre).sub_prompts # last.pre.sub_prompts
    /\ Tables(Db) = last.pre

\* C29: while two commits interleave, each reading the current master and
\* filing its fragments before its master write transaction, and after both
\* have ended, no two master rows are flagged current.
C29_OneCurrentWhenInterleaved ==
    \A m1, m2 \in master_prompts :
        m1.is_current = 1 /\ m2.is_current = 1 => m1.id = m2.id

\* The masters on the parent chain of master m, m excluded.
RECURSIVE Ancestors(_)
Ancestors(m) ==
    LET parents == {p \in master_prompts : p.id = m.parent_id}
    IN  parents \cup UNION {Ancestors(p) : p \in parents}

\* C30: with commits and uncommits run one after the other, the version of
\* every master that has a parent is greater under version_gt than the
\* version of its parent master and of every master further up the chain,
\* and no two masters in the table have the same version.
C30_MasterVersionsIncrease ==
    /\ \A m \in master_prompts : \A p \in Ancestors(m) : version_gt(m.version, p.version)
    /\ \A m1, m2 \in master_prompts : m1.version = m2.version => m1.id = m2.id

\* A second master was uncommitted, and the master committed after that
\* branched from the first one.
C30_Witness ==
    /\ Cardinality(master_prompts) = 2
    /\ \E m \in master_prompts :
          /\ m.id = 3
          /\ Len(m.version) = 2
          /\ \E p \in Ancestors(m) : p.id = 1

\* C31: in every reachable state no two sub_prompts rows of the same type
\* have the same version.
C31_VersionUniquePerType ==
    \A r, q \in sub_prompts :
        r.type = q.type /\ r.version = q.version => r.id = q.id

\* C32: after an uncommit that reverted, every id in the contents of the
\* master it flagged current is the id of a sub_prompts row.
C32_RestoredMasterResolves ==
    Reverted =>
        \A id \in IdsOf(get_current_master(master_prompts)) :
            \E r \in sub_prompts : r.id = id

\* C33: while two commits interleave and after both have ended, no two
\* master rows that have a parent have the same parent_id: the parent of a
\* master is the master that was current right before it was inserted, and
\* the masters form one chain.
C33_SingleChain ==
    \A m1, m2 \in master_prompts :
        m1.parent_id # 0 /\ m1.parent_id = m2.parent_id => m1.id = m2.id

====
